---- MODULE Spec2Model ----
(***************************************************************************)
(* Model of vision_toolbox/utils.py: the static functions of               *)
(* Camera_Process and Space_process, each a pure function of its           *)
(* arguments.  A behaviour is one call: Init draws the arguments, the      *)
(* actions run the function(s) and store what is returned or raised.       *)
(*                                                                         *)
(* Numbers.  Python floats (float64) are modelled by exact integers and    *)
(* rationals.  The one place where the code narrows a float64 value is the *)
(* float32 buffer of Get_depth_map_from; it is modelled by ToFloat32, a    *)
(* rounding onto a coarser grid with an overflow to +inf.                  *)
(***************************************************************************)
EXTENDS Integers, Sequences, FiniteSets

VARIABLES
    pc,     \* position of the call: "ready", intermediate labels, "done"
    arg,    \* the arguments of the call
    mid,    \* value handed from one function to the next in a pipeline
    ret     \* [status, value]: what the call returned ("ok") or raised

vars == <<pc, arg, mid, ret>>

None == [status |-> "none", value |-> <<>>]
Ok(v) == [status |-> "ok", value |-> v]
Raise(e) == [status |-> e, value |-> <<>>]

----------------------------------------------------------------------------
(* numpy helpers *)

\* np.round: round half to even, here of the rational n/d with d > 0
Round(n, d) ==
    LET q == n \div d
        r == n - q * d
    IN  IF 2 * r < d THEN q
        ELSE IF 2 * r > d THEN q + 1
        ELSE IF q % 2 = 0 THEN q ELSE q + 1

Min(a, b) == IF a <= b THEN a ELSE b

\* +inf of the float32 buffer: a value above every finite float32
PosInf == 1000
\* spacing of the float32 grid, in units of the (finer) float64 grid
F32Step == 2
\* largest finite float32
F32Max == 4

\* float64 -> float32: round to nearest representable, ties to even;
\* beyond the largest finite value the result is +inf
ToFloat32(z) ==
    LET r == F32Step * Round(z, F32Step)
    IN  IF z = PosInf \/ r > F32Max THEN PosInf ELSE r

\* only the negative values are cleared, +inf is kept
ClearNegative(x) == IF x < 0 THEN 0 ELSE x

\* np.nan_to_num(x, nan=0.0, posinf=0.0, neginf=0.0), then x[x < 0] = 0.0
NanToNum(x) == IF x = PosInf \/ x = -PosInf \/ x < 0 THEN 0 ELSE x

----------------------------------------------------------------------------
(* Camera_Process: depth map <-> points *)

(* An image (h, w, 1) is [h, w, at]: at[v][u] for rows v in 0..h-1 and     *)
(* columns u in 0..w-1.                                                    *)

\* the pixels of an h x w grid in row-major order (meshgrid indexing='ij')
Meshgrid(h, w) ==
    [k \in 1 .. h * w |-> [yy |-> (k - 1) \div w, xx |-> (k - 1) % w]]

NoMask == <<>>

Get_pts_from(depth_map, mask) ==
    LET _h == depth_map.h
        _w == depth_map.w
        _mask == IF mask = NoMask
                 THEN [v \in 0 .. _h - 1 |-> [u \in 0 .. _w - 1 |-> TRUE]]
                 ELSE mask
        Sel(p) == _mask[p.yy][p.xx]
        _px == SelectSeq(Meshgrid(_h, _w), Sel)
    IN  [k \in 1 .. Len(_px) |->
            LET _d == depth_map.at[_px[k].yy][_px[k].xx]
            IN  <<_px[k].xx * _d, _px[k].yy * _d, _d>>]

\* last write wins: plain fancy-index assignment d[idx] = val
AssignAt(d_flat, idx, val) ==
    LET RECURSIVE Go(_, _)
        Go(d, k) ==
            IF k > Len(idx) THEN d
            ELSE Go([d EXCEPT ![idx[k]] = ToFloat32(val[k])], k + 1)
    IN  Go(d_flat, 1)

\* np.minimum.at(d_flat, idx, val): unbuffered per-index running minimum,
\* the values stored into the float32 buffer
MinimumAt(d_flat, idx, val) ==
    LET RECURSIVE Go(_, _)
        Go(d, k) ==
            IF k > Len(idx) THEN d
            ELSE Go([d EXCEPT ![idx[k]] = Min(@, ToFloat32(val[k]))], k + 1)
    IN  Go(d_flat, 1)

\* column-major index of pixel (u, v): _u * _h + _v
FlatIndexColMajor(u, v, w, h) == u * h + v

\* _v * _w + _u: index of pixel (u, v) in the flat buffer, rows of length w
FlatIndex(u, v, w, h) == v * w + u

Get_depth_map_from(pts, depth_map_size) ==
    LET _w == depth_map_size[1]
        _h == depth_map_size[2]
        Vis(p) == p[3] > 0
        _vis_pts == SelectSeq(pts, Vis)
        U(p) == Round(p[1], p[3])
        V(p) == Round(p[2], p[3])
        InMask(p) == U(p) >= 0 /\ U(p) < _w /\ V(p) >= 0 /\ V(p) < _h
        _kept == SelectSeq(_vis_pts, InMask)
        _idx == [k \in 1 .. Len(_kept) |-> FlatIndex(U(_kept[k]), V(_kept[k]), _w, _h)]
        _z == [k \in 1 .. Len(_kept) |-> _kept[k][3]]
        _d_inf == [i \in 0 .. _h * _w - 1 |-> PosInf]
        _d_min == MinimumAt(_d_inf, _idx, _z)
        _d_flat == [i \in 0 .. _h * _w - 1 |-> NanToNum(_d_min[i])]
    IN  [h |-> _h, w |-> _w,
         at |-> [v \in 0 .. _h - 1 |-> [u \in 0 .. _w - 1 |-> _d_flat[v * _w + u]]]]

----------------------------------------------------------------------------
(* forward projection of a point sequence *)

MaxPts == 2
XVals == {-1, 0, 1, 3}
YVals == {0, 3}
\* behind the camera, on it, float32 values (2, 4), a value between two
\* float32 values (3), a value beyond the largest float32 (6)
ZVals == {-1, 0, 2, 3, 4, 6}
Sizes == {<<1, 1>>, <<2, 1>>, <<1, 2>>}

Points == {<<x, y, z>> : x \in XVals, y \in YVals, z \in ZVals}

SeqsUpTo(S, n) == UNION {[1 .. k -> S] : k \in 0 .. n}

InitProj ==
    /\ pc = "ready"
    /\ arg \in [pts : SeqsUpTo(Points, MaxPts), size : Sizes]
    /\ mid = None
    /\ ret = None

CallForward ==
    /\ pc = "ready"
    /\ ret' = Ok(Get_depth_map_from(arg.pts, arg.size))
    /\ pc' = "done"
    /\ UNCHANGED <<arg, mid>>

NextProj == CallForward

SpecProj == InitProj /\ [][NextProj]_vars

\* the points that reach pixel (u, v): z > 0 and (x/z, y/z) rounds to (u, v)
Contributors(pts, u, v) ==
    {i \in 1 .. Len(pts) :
        pts[i][3] > 0 /\ Round(pts[i][1], pts[i][3]) = u /\ Round(pts[i][2], pts[i][3]) = v}

MinZ(pts, S) == CHOOSE m \in {pts[i][3] : i \in S} : \A i \in S : m <= pts[i][3]

Permutations(n) == {f \in [1 .. n -> 1 .. n] : \A i, j \in 1 .. n : f[i] = f[j] => i = j}

Permuted(pts, f) == [k \in 1 .. Len(pts) |-> pts[f[k]]]

RemoveAt(pts, i) == [k \in 1 .. Len(pts) - 1 |-> IF k < i THEN pts[k] ELSE pts[k + 1]]

Pixels(size) == {<<u, v>> : u \in 0 .. size[1] - 1, v \in 0 .. size[2] - 1}

\* C1 (as amended): whenever two or more points with z > 0 round to the same
\* in-bounds pixel, the depth written there is the minimum z among them as
\* stored in the float32 buffer (rounded to float32; 0 if that overflows),
\* and the depth map is the same for every permutation of the points.
C1_MinDepthFloat32 ==
    pc = "done" =>
        /\ \A px \in Pixels(arg.size) :
            LET S == Contributors(arg.pts, px[1], px[2])
            IN  Cardinality(S) >= 2 =>
                    ret.value.at[px[2]][px[1]] = NanToNum(ToFloat32(MinZ(arg.pts, S)))
        /\ \A f \in Permutations(Len(arg.pts)) :
            Get_depth_map_from(Permuted(arg.pts, f), arg.size) = ret.value

\* C1 (as claimed): the depth written at a pixel that two or more points
\* reach is exactly the minimum z among them, for every order of the points.
C1_MinDepthExact ==
    pc = "done" =>
        /\ \A px \in Pixels(arg.size) :
            LET S == Contributors(arg.pts, px[1], px[2])
            IN  Cardinality(S) >= 2 => ret.value.at[px[2]][px[1]] = MinZ(arg.pts, S)
        /\ \A f \in Permutations(Len(arg.pts)) :
            Get_depth_map_from(Permuted(arg.pts, f), arg.size) = ret.value

\* two points of different depth on one pixel, the nearer one first, and the
\* nearer depth is what the pixel holds
C1_Witness ==
    /\ pc = "done"
    /\ Len(arg.pts) = 2
    /\ arg.pts[1][3] = 2 /\ arg.pts[2][3] = 4
    /\ \E px \in Pixels(arg.size) :
        /\ Contributors(arg.pts, px[1], px[2]) = {1, 2}
        /\ ret.value.at[px[2]][px[1]] = 2

----------------------------------------------------------------------------
(* back-projection of a depth map followed by forward projection *)

DepthVals == {0, 2, 3, 4, 6}
SizesRT == {<<1, 1>>, <<2, 1>>, <<1, 2>>, <<2, 2>>}

DepthMaps ==
    UNION {
        {[h |-> s[2], w |-> s[1], at |-> a] :
            a \in [0 .. s[2] - 1 -> [0 .. s[1] - 1 -> DepthVals]]} : s \in SizesRT}

\* a mask that leaves out the odd pixels of the grid
Checker(h, w) == [v \in 0 .. h - 1 |-> [u \in 0 .. w - 1 |-> (u + v) % 2 = 0]]

InitRT ==
    /\ pc = "ready"
    /\ \E d \in DepthMaps, m \in BOOLEAN :
        arg = [depth_map |-> d, mask |-> IF m THEN Checker(d.h, d.w) ELSE NoMask]
    /\ mid = None
    /\ ret = None

CallBackproject ==
    /\ pc = "ready"
    /\ mid' = Ok(Get_pts_from(arg.depth_map, arg.mask))
    /\ pc' = "pts"
    /\ UNCHANGED <<arg, ret>>

CallReproject ==
    /\ pc = "pts"
    /\ ret' = Ok(Get_depth_map_from(mid.value, <<arg.depth_map.w, arg.depth_map.h>>))
    /\ pc' = "done"
    /\ UNCHANGED <<arg, mid>>

NextRT == CallBackproject \/ CallReproject

SpecRT == InitRT /\ [][NextRT]_vars

AllPositive(d) == \A v \in 0 .. d.h - 1 : \A u \in 0 .. d.w - 1 : d.at[v][u] > 0

\* C4 (as amended): for a depth map D with all depths > 0 and the default
\* mask, forward_project(backproject(D), (w, h)) is the h x w map that holds
\* at every pixel D's depth as stored in float32 (rounded to float32; 0 if
\* that overflows); it equals D wherever D's depth is a float32 value.
C4_RoundTripFloat32 ==
    (pc = "done" /\ arg.mask = NoMask /\ AllPositive(arg.depth_map)) =>
        /\ ret.value.h = arg.depth_map.h /\ ret.value.w = arg.depth_map.w
        /\ \A v \in 0 .. arg.depth_map.h - 1 : \A u \in 0 .. arg.depth_map.w - 1 :
            /\ ret.value.at[v][u] = NanToNum(ToFloat32(arg.depth_map.at[v][u]))
            /\ ToFloat32(arg.depth_map.at[v][u]) = arg.depth_map.at[v][u]
                => ret.value.at[v][u] = arg.depth_map.at[v][u]

\* C4 (as claimed): the round trip returns D itself.
C4_RoundTripExact ==
    (pc = "done" /\ arg.mask = NoMask /\ AllPositive(arg.depth_map)) =>
        ret.value = arg.depth_map

\* a 2 x 2 map of float32 depths, not all equal, that comes back unchanged
C4_Witness ==
    /\ pc = "done" /\ arg.mask = NoMask /\ AllPositive(arg.depth_map)
    /\ arg.depth_map.h = 2 /\ arg.depth_map.w = 2
    /\ arg.depth_map.at[0][1] # arg.depth_map.at[1][0]
    /\ ret.value = arg.depth_map

----------------------------------------------------------------------------
(* exact rationals <<n, d>>, d > 0, in lowest terms *)

Abs(a) == IF a < 0 THEN -a ELSE a

RECURSIVE GCD(_, _)
GCD(a, b) == IF b = 0 THEN a ELSE GCD(b, a % b)

Rat(n, d) ==
    LET g == GCD(Abs(n), Abs(d))
        sg == IF d < 0 THEN -1 ELSE 1
    IN  <<sg * (n \div g), sg * (d \div g)>>

FromInt(k) == <<k, 1>>
RatMul(a, b) == Rat(a[1] * b[1], a[2] * b[2])
RatDiv(a, b) == Rat(a[1] * b[2], a[2] * b[1])
RatAdd(a, b) == Rat(a[1] * b[2] + b[1] * a[2], a[2] * b[2])

(* numpy arrays: [shape, val], val nested as deep as shape is long *)

Array(shape, val) == [shape |-> shape, val |-> val]
ndim(a) == Len(a.shape)

\* a * b and a / b element by element, for (2,) and (N, 2) arrays of one shape
EwMul(a, b) ==
    IF ndim(a) = 1
    THEN Array(a.shape, [i \in 1 .. a.shape[1] |-> RatMul(a.val[i], b.val[i])])
    ELSE Array(a.shape, [n \in 1 .. a.shape[1] |->
                [i \in 1 .. a.shape[2] |-> RatMul(a.val[n][i], b.val[n][i])]])

EwDiv(a, b) ==
    IF ndim(a) = 1
    THEN Array(a.shape, [i \in 1 .. a.shape[1] |-> RatDiv(a.val[i], b.val[i])])
    ELSE Array(a.shape, [n \in 1 .. a.shape[1] |->
                [i \in 1 .. a.shape[2] |-> RatDiv(a.val[n][i], b.val[n][i])]])

\* k * a for a scalar k
Scale(k, a) ==
    IF ndim(a) = 1
    THEN Array(a.shape, [i \in 1 .. a.shape[1] |-> RatMul(k, a.val[i])])
    ELSE Array(a.shape, [n \in 1 .. a.shape[1] |->
                [i \in 1 .. a.shape[2] |-> RatMul(k, a.val[n][i])]])

\* np.round(a).astype(int)
EwRound(a) ==
    IF ndim(a) = 1
    THEN Array(a.shape, [i \in 1 .. a.shape[1] |-> FromInt(Round(a.val[i][1], a.val[i][2]))])
    ELSE Array(a.shape, [n \in 1 .. a.shape[1] |->
                [i \in 1 .. a.shape[2] |-> FromInt(Round(a.val[n][i][1], a.val[n][i][2]))]])

----------------------------------------------------------------------------
(* Camera_Process: parameters.  A field of view is carried by the tangent  *)
(* of its half angle, a rational: fov = 2 atan(t), 0 < t.                  *)

\* size / (2 * np.tan(fov / 2))
Get_focal_length_from(fov, size) == EwDiv(size, Scale(FromInt(2), fov))

\* 2 * np.round(np.tan(fov / 2) * f_length).astype(int)
Get_size_from(fov, f_length) == Scale(FromInt(2), EwRound(EwMul(fov, f_length)))

\* 2 * np.arctan2(size, f_length): size not halved
Get_fov_from_NoHalf(size, f_length) == EwDiv(size, f_length)

\* 2 * np.arctan2(size / 2, f_length), f_length > 0
Get_fov_from(size, f_length) == EwDiv(Scale(<<1, 2>>, size), f_length)

\* size * rate
Get_pp_from(rate, size) == EwMul(size, rate)

\* pp / size
Get_pp_rate_from(pp, size) == EwDiv(pp, size)

Zero == FromInt(0)
One == FromInt(1)

\* np.eye(3) with [0,0], [1,1], [0,2], [1,2] set to fx, fy, px, py
Pinhole(f, p) ==
    << <<f[1], Zero, p[1]>>,
       <<Zero, f[2], p[2]>>,
       <<Zero, Zero, One>> >>

Compose_intrinsic(f_length, pp) ==
    IF ndim(f_length) # ndim(pp) \/ f_length.shape[1] # pp.shape[1]
    THEN Raise("ValueError")
    ELSE IF ndim(pp) >= 2
    THEN Ok(Array(<<pp.shape[1], 3, 3>>,
                  [n \in 1 .. pp.shape[1] |-> Pinhole(f_length.val[n], pp.val[n])]))
    ELSE Ok(Array(<<3, 3>>, Pinhole(f_length.val, pp.val)))

\* the pair (focal length, principal point)
Extract_intrinsic(intrinsic) ==
    IF ndim(intrinsic) >= 3
    THEN LET N == intrinsic.shape[1]
         IN  << Array(<<N, 2>>, [n \in 1 .. N |->
                    <<intrinsic.val[n][1][1], intrinsic.val[n][2][2]>>]),
                Array(<<N, 2>>, [n \in 1 .. N |->
                    <<intrinsic.val[n][1][3], intrinsic.val[n][2][3]>>]) >>
    ELSE << Array(<<2>>, <<intrinsic.val[1][1], intrinsic.val[2][2]>>),
            Array(<<2>>, <<intrinsic.val[1][3], intrinsic.val[2][3]>>) >>

Adjust_intrinsic(intrinsic, size, new_size) ==
    LET _e == Extract_intrinsic(intrinsic)
        _ff == _e[1]
        _pp == _e[2]
        _fov == Get_fov_from(size, _ff)
        _pp_rate == Get_pp_rate_from(_pp, size)
    IN  Compose_intrinsic(Get_focal_length_from(_fov, new_size),
                          Get_pp_from(_pp_rate, new_size))

----------------------------------------------------------------------------
(* focal_length_from followed by size_from, and size_from alone *)

MaxSize == 4
TanHalf == {<<1, 2>>, <<1, 1>>, <<2, 1>>}
FocalVals == {<<1, 2>>, <<3, 5>>, <<3, 2>>, <<2, 1>>}

SizeVals == {FromInt(k) : k \in 1 .. MaxSize}

InitSize ==
    /\ pc = "ready"
    /\ \E t \in TanHalf, s1, s2 \in SizeVals, f \in FocalVals :
        arg = [fov |-> Array(<<2>>, <<t, One>>),
               size |-> Array(<<2>>, <<s1, s2>>),
               f_length |-> Array(<<2>>, <<f, One>>)]
    /\ mid = None
    /\ ret = None

CallFocal ==
    /\ pc = "ready"
    /\ mid' = Ok(Get_focal_length_from(arg.fov, arg.size))
    /\ pc' = "focal"
    /\ UNCHANGED <<arg, ret>>

CallSize ==
    /\ pc = "focal"
    /\ ret' = Ok(Get_size_from(arg.fov, mid.value))
    /\ pc' = "done"
    /\ UNCHANGED <<arg, mid>>

CallSizeOf ==
    /\ pc = "ready"
    /\ ret' = Ok(Get_size_from(arg.fov, arg.f_length))
    /\ pc' = "sized"
    /\ UNCHANGED <<arg, mid>>

NextSize == CallFocal \/ CallSize \/ CallSizeOf

SpecSize == InitSize /\ [][NextSize]_vars

\* C5: size_from(fov, focal_length_from(fov, s)) = s for every fov and every
\* positive integer size s, and size_from(fov, f) is the integer nearest to
\* 2 * tan(fov / 2) * f.
C5_SizeInverse ==
    /\ pc = "done" => ret.value = arg.size
    /\ pc = "sized" =>
        \A i \in 1 .. 2 :
            LET x == RatMul(FromInt(2), RatMul(arg.fov.val[i], arg.f_length.val[i]))
            IN  ret.value.val[i] = FromInt(Round(x[1], x[2]))

----------------------------------------------------------------------------
(* adjust applied twice, S1 -> S2 -> S3 *)

MaxAdjSize == 3
AdjFocal == {FromInt(1), <<3, 2>>}
AdjPP == {FromInt(-1), Zero, <<1, 2>>}
AdjSizes == {Array(<<2>>, <<FromInt(a), FromInt(b)>>) : a, b \in 1 .. MaxAdjSize}

InitAdjust ==
    /\ pc = "ready"
    /\ \E fx \in AdjFocal, px, py \in AdjPP, S1, S2, S3 \in AdjSizes :
        arg = [intrinsic |-> Array(<<3, 3>>, Pinhole(<<fx, FromInt(2)>>, <<px, py>>)),
               S1 |-> S1, S2 |-> S2, S3 |-> S3]
    /\ mid = None
    /\ ret = None

CallAdjustFirst ==
    /\ pc = "ready"
    /\ mid' = Adjust_intrinsic(arg.intrinsic, arg.S1, arg.S2)
    /\ pc' = "adjusted"
    /\ UNCHANGED <<arg, ret>>

CallAdjustSecond ==
    /\ pc = "adjusted"
    /\ mid.status = "ok"
    /\ ret' = Adjust_intrinsic(mid.value, arg.S2, arg.S3)
    /\ pc' = "done"
    /\ UNCHANGED <<arg, mid>>

NextAdjust == CallAdjustFirst \/ CallAdjustSecond

SpecAdjust == InitAdjust /\ [][NextAdjust]_vars

\* intrinsic with focal length and principal point scaled per axis by to / from
Scaled(intrinsic, from, to) ==
    LET k(i) == RatDiv(to.val[i], from.val[i])
        m == intrinsic.val
    IN  Array(<<3, 3>>,
            << <<RatMul(m[1][1], k(1)), Zero, RatMul(m[1][3], k(1))>>,
               <<Zero, RatMul(m[2][2], k(2)), RatMul(m[2][3], k(2))>>,
               <<Zero, Zero, One>> >>)

\* C6: adjust(adjust(I, S1, S2), S2, S3) = adjust(I, S1, S3), and adjust
\* scales focal length and principal point per axis by new_size / old_size.
C6_ResizeTransitive ==
    /\ pc = "adjusted" => mid = Ok(Scaled(arg.intrinsic, arg.S1, arg.S2))
    /\ pc = "done" =>
        /\ ret = Adjust_intrinsic(arg.intrinsic, arg.S1, arg.S3)
        /\ ret = Ok(Scaled(arg.intrinsic, arg.S1, arg.S3))

\* three different sizes, none square, and the two routes agree
C6_Witness ==
    /\ pc = "done"
    /\ arg.S1.val = <<FromInt(2), FromInt(3)>>
    /\ arg.S2.val = <<FromInt(3), FromInt(1)>>
    /\ arg.S3.val = <<FromInt(1), FromInt(2)>>
    /\ arg.intrinsic.val[1][3] = <<1, 2>>
    /\ ret.status = "ok"
    /\ ret = Adjust_intrinsic(arg.intrinsic, arg.S1, arg.S3)
    /\ ret.value.val[1][1] # arg.intrinsic.val[1][1]

----------------------------------------------------------------------------
(* Space_process: rigid transforms.  Poses have integer entries: rotations *)
(* about z by multiples of 90 degrees, integer translations.               *)

L2R ==
    << <<0, 1, 0, 0>>,
       <<1, 0, 0, 0>>,
       <<0, 0, -1, 0>>,
       <<0, 0, 0, 1>> >>

Eye4 ==
    << <<1, 0, 0, 0>>,
       <<0, 1, 0, 0>>,
       <<0, 0, 1, 0>>,
       <<0, 0, 0, 1>> >>

\* 4x4 transform with rotation block m and translation t
Rigid(m, t) ==
    << <<m[1][1], m[1][2], m[1][3], t[1]>>,
       <<m[2][1], m[2][2], m[2][3], t[2]>>,
       <<m[3][1], m[3][2], m[3][3], t[3]>>,
       <<0, 0, 0, 1>> >>

RotBlock(E) == [i \in 1 .. 3 |-> [j \in 1 .. 3 |-> E[i][j]]]
TransBlock(E) == [i \in 1 .. 3 |-> E[i][4]]

\* a @ b for 4x4 matrices
MatMul(a, b) ==
    [i \in 1 .. 4 |-> [j \in 1 .. 4 |->
        a[i][1] * b[1][j] + a[i][2] * b[2][j] + a[i][3] * b[3][j] + a[i][4] * b[4][j]]]

\* E @ p for a homogeneous 4-vector p
MatVec(E, p) ==
    [i \in 1 .. 4 |-> E[i][1] * p[1] + E[i][2] * p[2] + E[i][3] * p[3] + E[i][4] * p[4]]

\* np.linalg.inv of a rigid transform: [R^T | -R^T t]
Inv(E) ==
    LET Rt == [i \in 1 .. 3 |-> [j \in 1 .. 3 |-> E[j][i]]]
        t == [i \in 1 .. 3 |->
                -(Rt[i][1] * E[1][4] + Rt[i][2] * E[2][4] + Rt[i][3] * E[3][4])]
    IN  Rigid(Rt, t)

\* Convert.To_homog: a column of ones appended
To_homog(obj) ==
    Array(<<obj.shape[1], obj.shape[2] + 1>>,
          [n \in 1 .. obj.shape[1] |-> Append(obj.val[n], 1)])

\* np.einsum("bjk, nk -> bnk", _ex, _pts), _ex (N, 3, 4), _pts (M, 4):
\* j, absent from the output, is summed; k is kept
Einsum_bnk(_ex, _pts) ==
    Array(<<_ex.shape[1], _pts.shape[1], 4>>,
        [b \in 1 .. _ex.shape[1] |-> [n \in 1 .. _pts.shape[1] |->
            [k \in 1 .. 4 |->
                (_ex.val[b][1][k] + _ex.val[b][2][k] + _ex.val[b][3][k]) * _pts.val[n][k]]]])

Apply_extrinsic(pts, extrinsic, apply_inv) ==
    IF ndim(extrinsic) # 3
    THEN Raise("IndexError")
    ELSE
    LET N == extrinsic.shape[1]
        _inv == IF apply_inv
                THEN Array(extrinsic.shape, [b \in 1 .. N |-> Inv(extrinsic.val[b])])
                ELSE extrinsic
        _ex == Array(<<N, 3, 4>>, [b \in 1 .. N |-> SubSeq(_inv.val[b], 1, 3)])
        _ord == pts.shape[2]
        _pts == IF _ord = 3 THEN To_homog(pts) ELSE pts
    IN  Ok(Einsum_bnk(_ex, _pts))

\* lines 351-359 of Hand_change, with the transform _tp chosen
Hand_change_apply(obj, _tp) ==
    IF ndim(obj) = 2
    THEN LET _pts == IF obj.shape[2] = 3 THEN To_homog(obj) ELSE obj
             r == Apply_extrinsic(_pts, Array(<<1, 4, 4>>, <<_tp>>), FALSE)
         IN  Ok(Array(<<_pts.shape[1], 3>>,
                 [n \in 1 .. _pts.shape[1] |-> SubSeq(r.value.val[1][n], 1, 3)]))
    ELSE Ok(Array(obj.shape, [b \in 1 .. obj.shape[1] |-> MatMul(_tp, obj.val[b])]))

\* the function with its assert statement left out
Hand_change_NoAssert(obj, mode) ==
    Hand_change_apply(obj, IF mode = "L2R" THEN L2R ELSE Eye4)

Hand_change(obj, mode) ==
    IF mode # "L2R"
    THEN Raise("AssertionError")
    ELSE Hand_change_apply(obj, IF mode = "L2R" THEN L2R ELSE Eye4)

----------------------------------------------------------------------------
(* transform: a batch of extrinsics applied to a point set *)

MaxBatch == 2
MaxM == 2

RotZ(k) ==
    CASE k = 0 -> << <<1, 0, 0>>, <<0, 1, 0>>, <<0, 0, 1>> >>
      [] k = 1 -> << <<0, -1, 0>>, <<1, 0, 0>>, <<0, 0, 1>> >>
      [] k = 2 -> << <<-1, 0, 0>>, <<0, -1, 0>>, <<0, 0, 1>> >>
      [] k = 3 -> << <<0, 1, 0>>, <<-1, 0, 0>>, <<0, 0, 1>> >>

Translations == {<<0, 0, 0>>, <<1, 2, 3>>}
Poses == {Rigid(RotZ(k), t) : k \in 0 .. 3, t \in Translations}

PoseBatches(n) == UNION {{Array(<<N, 4, 4>>, v) : v \in [1 .. N -> Poses]} : N \in 1 .. n}

Pts3 == {<<0, 0, 0>>, <<1, 0, 0>>, <<1, 2, 3>>}

PointSets(n) ==
    UNION {{Array(<<M, 3>>, v) : v \in [1 .. M -> Pts3]} : M \in 1 .. n}
    \cup UNION {{Array(<<M, 4>>, [i \in 1 .. M |-> Append(v[i], 1)]) : v \in [1 .. M -> Pts3]}
                    : M \in 1 .. n}

InitExt ==
    /\ pc = "ready"
    /\ arg \in [pts : PointSets(MaxM), extrinsic : PoseBatches(MaxBatch)]
    /\ mid = None
    /\ ret = None

CallApply ==
    /\ pc = "ready"
    /\ ret' = Apply_extrinsic(arg.pts, arg.extrinsic, FALSE)
    /\ pc' = "done"
    /\ UNCHANGED <<arg, mid>>

NextExt == CallApply

SpecExt == InitExt /\ [][NextExt]_vars

\* C2: with invert = False the result has one entry per (transform, point)
\* pair, and entry (b, n) is the first three components of E_b . [p_n; 1];
\* the identity extrinsic returns every point's x, y, z unchanged.
C2_RigidTransform ==
    pc = "done" =>
        /\ ret.status = "ok"
        /\ DOMAIN ret.value.val = 1 .. arg.extrinsic.shape[1]
        /\ \A b \in 1 .. arg.extrinsic.shape[1] :
            /\ DOMAIN ret.value.val[b] = 1 .. arg.pts.shape[1]
            /\ \A n \in 1 .. arg.pts.shape[1] :
                LET p == SubSeq(arg.pts.val[n], 1, 3)
                IN  SubSeq(ret.value.val[b][n], 1, 3)
                        = SubSeq(MatVec(arg.extrinsic.val[b], Append(p, 1)), 1, 3)

----------------------------------------------------------------------------
(* convert_handedness *)

\* a point set, a batch of transforms, or one 4x4 transform
InitHand ==
    /\ pc = "ready"
    /\ \E mode \in {"L2R", "R2L"} :
        \/ \E o \in PointSets(MaxM) : arg = [obj |-> o, mode |-> mode]
        \/ \E o \in PoseBatches(1) : arg = [obj |-> o, mode |-> mode]
        \/ \E E \in Poses : arg = [obj |-> Array(<<4, 4>>, E), mode |-> mode]
    /\ mid = None
    /\ ret = None

CallHandChange ==
    /\ pc = "ready"
    /\ ret' = Hand_change(arg.obj, arg.mode)
    /\ pc' = "done"
    /\ UNCHANGED <<arg, mid>>

NextHand == CallHandChange

SpecHand == InitHand /\ [][NextHand]_vars

\* C7: every call of Hand_change with mode "R2L", for any point set or
\* transform, ends in a failure and returns no result.
C7_HandednessGuard ==
    (pc = "done" /\ arg.mode = "R2L") => (ret.status = "AssertionError" /\ ret.value = <<>>)

\* a call with mode "R2L" on a batch of transforms has failed
C7_Witness ==
    /\ pc = "done" /\ arg.mode = "R2L"
    /\ arg.obj.shape = <<1, 4, 4>>
    /\ ret.status = "AssertionError"

----------------------------------------------------------------------------
(* Convert.Rotation (scipy), on the rotations of the model *)

\* R.from_quat(quat, scalar_first=True).as_matrix(): quat = (w, x, y, z),
\* normalised by scipy; the quaternions drawn give integer matrices
QuatMatrix(q) ==
    LET w == q[1]
        x == q[2]
        y == q[3]
        z == q[4]
        n == w * w + x * x + y * y + z * z
    IN  << <<(w * w + x * x - y * y - z * z) \div n, (2 * (x * y - w * z)) \div n,
             (2 * (x * z + w * y)) \div n>>,
           <<(2 * (x * y + w * z)) \div n, (w * w - x * x + y * y - z * z) \div n,
             (2 * (y * z - w * x)) \div n>>,
           <<(2 * (x * z - w * y)) \div n, (2 * (y * z + w * x)) \div n,
             (w * w - x * x - y * y + z * z) \div n>> >>

Q_to_M(quat) ==
    IF ndim(quat) >= 2
    THEN Array(<<quat.shape[1], 3, 3>>, [n \in 1 .. quat.shape[1] |-> QuatMatrix(quat.val[n])])
    ELSE Array(<<3, 3>>, QuatMatrix(quat.val))

\* R.from_matrix(matrix).as_rotvec(degrees=True) of one rotation about z
M_2_Rv(matrix) ==
    CASE matrix = RotZ(0) -> <<FromInt(0), FromInt(0), FromInt(0)>>
      [] matrix = RotZ(1) -> <<FromInt(0), FromInt(0), FromInt(90)>>
      [] matrix = RotZ(2) -> <<FromInt(0), FromInt(0), FromInt(180)>>
      [] matrix = RotZ(3) -> <<FromInt(0), FromInt(0), FromInt(-90)>>

\* a rotation matrix with irrational entries: outside the numbers of the model
Unrepresentable == [i \in 1 .. 3 |-> [j \in 1 .. 3 |-> <<0, 0>>]]

RatMatrix(m) == [i \in DOMAIN m |-> [j \in DOMAIN m[i] |-> FromInt(m[i][j])]]

\* R.from_rotvec(rotvec, degrees=True).as_matrix()
Rv_2_M(rotvec) ==
    IF rotvec[1] = Zero /\ rotvec[2] = Zero /\ rotvec[3][2] = 1 /\ rotvec[3][1] % 90 = 0
    THEN RatMatrix(RotZ((rotvec[3][1] \div 90) % 4))
    ELSE Unrepresentable

\* the sum over axis 0, not divided by the count
SumAxis0(vs) ==
    LET RECURSIVE Sum(_, _)
        Sum(i, k) == IF k = 0 THEN Zero ELSE RatAdd(Sum(i, k - 1), vs[k][i])
    IN  [i \in 1 .. 3 |-> Sum(i, Len(vs))]

\* ndarray.mean(axis=0) of N 3-vectors
MeanAxis0(vs) ==
    LET RECURSIVE Sum(_, _)
        Sum(i, k) == IF k = 0 THEN Zero ELSE RatAdd(Sum(i, k - 1), vs[k][i])
    IN  [i \in 1 .. 3 |-> RatDiv(Sum(i, Len(vs)), FromInt(Len(vs)))]

----------------------------------------------------------------------------
(* Space_process: extrinsic *)

Compose_extrinsic(q, tf) ==
    IF ndim(q) # ndim(tf) \/ (ndim(q) >= 2 /\ q.shape[1] # tf.shape[1])
    THEN Raise("ValueError")
    ELSE LET _m == Q_to_M(q)
         IN  IF ndim(q) >= 2
             THEN Ok(Array(<<q.shape[1], 4, 4>>,
                        [n \in 1 .. q.shape[1] |-> Rigid(_m.val[n], tf.val[n])]))
             ELSE Ok(Array(<<4, 4>>, Rigid(_m.val, tf.val)))

\* np.matmul(a, b) of 4x4 matrices or batches of them, a single matrix
\* broadcast against a batch
MatMulBroadcast(a, b) ==
    IF ndim(a) = 3 /\ ndim(b) = 3
    THEN Array(a.shape, [n \in 1 .. a.shape[1] |-> MatMul(a.val[n], b.val[n])])
    ELSE IF ndim(a) = 3
    THEN Array(a.shape, [n \in 1 .. a.shape[1] |-> MatMul(a.val[n], b.val)])
    ELSE IF ndim(b) = 3
    THEN Array(b.shape, [n \in 1 .. b.shape[1] |-> MatMul(a.val, b.val[n])])
    ELSE Array(a.shape, MatMul(a.val, b.val))

\* np.linalg.inv of one transform or of each transform of a batch
InvBatch(a) ==
    IF ndim(a) = 3
    THEN Array(a.shape, [n \in 1 .. a.shape[1] |-> Inv(a.val[n])])
    ELSE Array(a.shape, Inv(a.val))

Get_median_extrinsic(from_tp, to_tp) ==
    IF from_tp.shape[1] # to_tp.shape[1]
    THEN Raise("AssertionError")
    ELSE
    LET _tp == MatMulBroadcast(to_tp, InvBatch(from_tp))
    IN  IF ndim(_tp) # 3
        THEN Raise("IndexError")
        ELSE
        LET N == _tp.shape[1]
            _rot == Rv_2_M(MeanAxis0([n \in 1 .. N |-> M_2_Rv(RotBlock(_tp.val[n]))]))
            _mean == MeanAxis0([n \in 1 .. N |-> [i \in 1 .. 3 |-> FromInt(_tp.val[n][i][4])]])
        IN  Ok(Array(<<4, 4>>,
                << <<_rot[1][1], _rot[1][2], _rot[1][3], _mean[1]>>,
                   <<_rot[2][1], _rot[2][2], _rot[2][3], _mean[2]>>,
                   <<_rot[3][1], _rot[3][2], _rot[3][3], _mean[3]>>,
                   <<Zero, Zero, Zero, One>> >>))

----------------------------------------------------------------------------
(* average of relative poses *)

MaxPairs == 2

InitAvg ==
    /\ pc = "ready"
    /\ \E N \in 1 .. MaxPairs :
        \E f, t \in [1 .. N -> Poses] :
            arg = [fn |-> "Get_median_extrinsic",
                   a |-> Array(<<N, 4, 4>>, f), b |-> Array(<<N, 4, 4>>, t)]
    /\ mid = None
    /\ ret = None

CallMedian ==
    /\ pc = "ready"
    /\ arg.fn = "Get_median_extrinsic"
    /\ ret' = Get_median_extrinsic(arg.a, arg.b)
    /\ pc' = "done"
    /\ UNCHANGED <<arg, mid>>

NextAvg == CallMedian

SpecAvg == InitAvg /\ [][NextAvg]_vars

\* the relative transform to[i] . inverse(from[i])
Relative(i) == MatMul(arg.b.val[i], Inv(arg.a.val[i]))

\* C9: if the relative transforms to[i] . inverse(from[i]) of the N >= 1
\* pairs are all the same rigid transform T, Get_median_extrinsic returns T.
C9_AverageIdentity ==
    (pc = "done" /\ \A i \in 1 .. arg.a.shape[1] : Relative(i) = Relative(1)) =>
        ret = Ok(Array(<<4, 4>>, RatMatrix(Relative(1))))

\* two different pairs with one relative transform, a quarter turn with a
\* translation, which is what is returned
C9_Witness ==
    /\ pc = "done"
    /\ arg.a.shape[1] = 2
    /\ arg.a.val[1] # arg.a.val[2]
    /\ Relative(1) = Relative(2)
    /\ RotBlock(Relative(1)) = RotZ(1)
    /\ TransBlock(Relative(1)) # <<0, 0, 0>>
    /\ ret = Ok(Array(<<4, 4>>, RatMatrix(Relative(1))))

----------------------------------------------------------------------------
(* operands that disagree in rank or in batch count *)

MaxCount == 4
Quats == {<<1, 0, 0, 0>>, <<1, 0, 0, 1>>}

\* a single instance (n = 0) or a batch of n copies of it
Operand(n, item, itemShape) ==
    IF n = 0
    THEN Array(itemShape, item)
    ELSE Array(<<n>> \o itemShape, [i \in 1 .. n |-> item])

InitShape ==
    /\ pc = "ready"
    /\ \E na, nb \in 0 .. MaxCount :
        \/ \E f \in AdjFocal, p \in AdjPP :
            arg = [fn |-> "Compose_intrinsic",
                   a |-> Operand(na, <<f, f>>, <<2>>), b |-> Operand(nb, <<p, p>>, <<2>>)]
        \/ \E q \in Quats, t \in Translations :
            arg = [fn |-> "Compose_extrinsic",
                   a |-> Operand(na, q, <<4>>), b |-> Operand(nb, t, <<3>>)]
        \/ \E f, t \in {Rigid(RotZ(k), <<1, 2, 3>>) : k \in 0 .. 1} :
            arg = [fn |-> "Get_median_extrinsic",
                   a |-> Operand(na, f, <<4, 4>>), b |-> Operand(nb, t, <<4, 4>>)]
    /\ mid = None
    /\ ret = None

CallComposeIntrinsic ==
    /\ pc = "ready"
    /\ arg.fn = "Compose_intrinsic"
    /\ ret' = Compose_intrinsic(arg.a, arg.b)
    /\ pc' = "done"
    /\ UNCHANGED <<arg, mid>>

CallComposeExtrinsic ==
    /\ pc = "ready"
    /\ arg.fn = "Compose_extrinsic"
    /\ ret' = Compose_extrinsic(arg.a, arg.b)
    /\ pc' = "done"
    /\ UNCHANGED <<arg, mid>>

NextShape == CallComposeIntrinsic \/ CallComposeExtrinsic \/ CallMedian

SpecShape == InitShape /\ [][NextShape]_vars

\* a batch has one axis more than a single instance (a 4x4 transform has
\* two axes, the other operands one)
IsBatch(x) == ndim(x) > (IF arg.fn = "Get_median_extrinsic" THEN 2 ELSE 1)

\* one operand a single instance and the other a batch, or two batches of
\* different counts
Disagree(a, b) ==
    \/ IsBatch(a) # IsBatch(b)
    \/ IsBatch(a) /\ IsBatch(b) /\ a.shape[1] # b.shape[1]

\* C8: Compose_intrinsic, Compose_extrinsic and Get_median_extrinsic each
\* fail, producing no result, whenever their two operands disagree in rank
\* or in batch count.
C8_ShapeMismatchSurfaced ==
    (pc = "done" /\ Disagree(arg.a, arg.b)) => ret.status # "ok"

----------------------------------------------------------------------------
(* Space_process.Remove_duplicate.  Coordinates are decimals with four     *)
(* digits, held as multiples of 1 / CoordDen.                              *)

RECURSIVE Pow10(_)
Pow10(p) == IF p = 0 THEN 1 ELSE 10 * Pow10(p - 1)

CoordDen == Pow10(4)

\* (data * _scale).round().astype(np.int64), one row
Quantize(row, precision) ==
    [i \in 1 .. Len(row) |-> Round(row[i] * Pow10(precision), CoordDen)]

\* row a sorts before row b: lexicographic order of integer rows
LexLess(a, b) ==
    \E i \in 1 .. Len(a) :
        /\ a[i] < b[i]
        /\ \A j \in 1 .. i - 1 : a[j] = b[j]

\* the rows of a set in ascending lexicographic order
RECURSIVE SortRows(_)
SortRows(S) ==
    IF S = {} THEN <<>>
    ELSE LET m == CHOOSE r \in S : \A o \in S \ {r} : LexLess(r, o)
         IN  <<m>> \o SortRows(S \ {m})

\* position (from 0) of the last row of scaled equal to r
LastIndex(scaled, r) ==
    (CHOOSE i \in 1 .. Len(scaled) :
        scaled[i] = r /\ \A j \in i + 1 .. Len(scaled) : scaled[j] # r) - 1

\* position (from 0) of the first row of scaled equal to r
FirstIndex(scaled, r) ==
    (CHOOSE i \in 1 .. Len(scaled) :
        scaled[i] = r /\ \A j \in 1 .. i - 1 : scaled[j] # r) - 1

\* np.unique(scaled, axis=0, return_index=True)[1]: for the distinct rows in
\* sorted order, the index of the first occurrence of each
UniqueIndex(scaled) ==
    LET u == SortRows({scaled[i] : i \in 1 .. Len(scaled)})
    IN  [k \in 1 .. Len(u) |-> FirstIndex(scaled, u[k])]

Remove_duplicate(data, precision) ==
    LET _scaled == [i \in 1 .. Len(data) |-> Quantize(data[i], precision)]
        _indices == UniqueIndex(_scaled)
    IN  Ok(<< [k \in 1 .. Len(_indices) |-> data[_indices[k] + 1]], _indices >>)

MaxRows == 3
MaxPrecision == 3
Rows == {<<0, 0, 0>>, <<0, 0, 1>>, <<0, 0, 60>>, <<0, 10000, 0>>, <<10000, 10000, 10000>>}

InitDedup ==
    /\ pc = "ready"
    /\ \E n \in 1 .. MaxRows :
        arg \in [data : [1 .. n -> Rows], precision : 0 .. MaxPrecision]
    /\ mid = None
    /\ ret = None

CallRemoveDuplicate ==
    /\ pc = "ready"
    /\ ret' = Remove_duplicate(arg.data, arg.precision)
    /\ pc' = "done"
    /\ UNCHANGED <<arg, mid>>

NextDedup == CallRemoveDuplicate

SpecDedup == InitDedup /\ [][NextDedup]_vars

\* the quantized row of the input at index i (from 0)
QRow(i) == Quantize(arg.data[i + 1], arg.precision)

\* the index list holds, for each distinct quantized row, exactly the
\* smallest input index having that row, and the points are the rows there
FirstOccurrences(pts, idx) ==
    /\ \A k \in 1 .. Len(idx) :
        /\ idx[k] \in 0 .. Len(arg.data) - 1
        /\ \A j \in 0 .. idx[k] - 1 : QRow(j) # QRow(idx[k])
    /\ \A i \in 0 .. Len(arg.data) - 1 : \E k \in 1 .. Len(idx) : QRow(idx[k]) = QRow(i)
    /\ \A k, l \in 1 .. Len(idx) : k # l => idx[k] # idx[l]
    /\ pts = [k \in 1 .. Len(idx) |-> arg.data[idx[k] + 1]]

IsExample ==
    /\ arg.data = << <<0, 0, 0>>, <<0, 0, 1>>, <<10000, 10000, 10000>> >>
    /\ arg.precision = 2

\* C3 (as amended): the index list holds, for each distinct quantized row,
\* exactly the smallest input index having that row; indices and points are
\* listed in ascending lexicographic order of their quantized rows (not in
\* order of first appearance); the example gives the indices [0, 2].
C3_FirstOccurrenceSorted ==
    pc = "done" =>
        LET pts == ret.value[1]
            idx == ret.value[2]
        IN  /\ FirstOccurrences(pts, idx)
            /\ \A k, l \in 1 .. Len(idx) : k < l => LexLess(QRow(idx[k]), QRow(idx[l]))
            /\ IsExample => idx = <<0, 2>>

\* C3 (as claimed): first occurrences, listed in order of first appearance,
\* that is in strictly increasing index order; the example gives [0, 2].
C3_FirstOccurrenceInOrder ==
    pc = "done" =>
        LET pts == ret.value[1]
            idx == ret.value[2]
        IN  /\ FirstOccurrences(pts, idx)
            /\ \A k, l \in 1 .. Len(idx) : k < l => idx[k] < idx[l]
            /\ IsExample => idx = <<0, 2>>

\* the example: rows 0 and 1 collide at two decimals, row 0 is kept
C3_Witness ==
    /\ pc = "done"
    /\ IsExample
    /\ ret.value[2] = <<0, 2>>
    /\ ret.value[1] = << <<0, 0, 0>>, <<10000, 10000, 10000>> >>

====
